---------------------------- MODULE Spec2Model ----------------------------
(*************************************************************************)
(* EWMRS API: the read-only HTTP facade over the rendered-file tree.     *)
(*                                                                       *)
(* The state is the file system under BASE_DIR (populated by the         *)
(* external ingest/render pipeline), the one request being handled with  *)
(* the position of its handler (each `await` is a step boundary), the    *)
(* handler's locals, the file-system calls the request has made so far   *)
(* and the response.  Strings are TLA+ strings handled character by      *)
(* character (Len, SubSeq, \o), so includes(), the regular expressions,  *)
(* the template literals and path.join/path.resolve are computed the way *)
(* the code computes them.  Paths follow the POSIX flavour of `path`.    *)
(* Request parameters are strings; a missing parameter and an empty one  *)
(* are both falsy in JavaScript and are both written "".                 *)
(*************************************************************************)
EXTENDS Integers, Sequences, FiniteSets, TLC

VARIABLES
  fs,       \* the file system: absolute path -> node
  pc,       \* where the handler of the current request stands
  req,      \* the current request: route and parameters
  res,      \* the response sent for it, NoRes until then
  loc,      \* the handler's local variables
  ops,      \* the file-system calls the request has made, in order
  touched,  \* the paths the external writer changed during the request
  writes    \* how many changes the external writer has made

vars == <<fs, pc, req, res, loc, ops, touched, writes>>

-----------------------------------------------------------------------------
(* Bounds of the model.                                                  *)

\* most candidate render files present at once in an initial file system
MaxFiles == 2

-----------------------------------------------------------------------------
(* Strings.                                                              *)

\* String.prototype.includes
Includes(s, sub) ==
  \E i \in 1..(Len(s) - Len(sub) + 1) : SubSeq(s, i, i + Len(sub) - 1) = sub

\* String.prototype.startsWith
StartsWith(s, pre) == Len(s) >= Len(pre) /\ SubSeq(s, 1, Len(pre)) = pre

\* String.prototype.endsWith
EndsWith(s, suf) ==
  Len(s) >= Len(suf) /\ SubSeq(s, Len(s) - Len(suf) + 1, Len(s)) = suf

\* the positions of the separators of s
Slashes(s) == {i \in 1..Len(s) : SubSeq(s, i, i) = "/"}

\* s.split('/')
Split(s) ==
  LET sl == Slashes(s)
      n == Cardinality(sl)
      cut == [k \in 0..(n + 1) |->
                IF k = 0 THEN 0
                ELSE IF k = n + 1 THEN Len(s) + 1
                ELSE CHOOSE i \in sl : Cardinality({j \in sl : j < i}) = k - 1]
  IN [k \in 1..(n + 1) |-> SubSeq(s, cut[k - 1] + 1, cut[k] - 1)]

-----------------------------------------------------------------------------
(* node:path (POSIX).  Every path of the model is absolute, because      *)
(* GUI_DIR is; an absolute normalized path is "/" or "/seg/seg/...".     *)

RECURSIVE NormSegs(_, _)
NormSegs(segs, acc) ==
  IF segs = <<>> THEN acc
  ELSE LET s == Head(segs) IN
       IF s = "" \/ s = "." THEN NormSegs(Tail(segs), acc)
       ELSE IF s = ".."
            THEN NormSegs(Tail(segs),
                          IF acc = <<>> THEN acc ELSE SubSeq(acc, 1, Len(acc) - 1))
            ELSE NormSegs(Tail(segs), Append(acc, s))

RECURSIVE JoinSegs(_)
JoinSegs(segs) ==
  IF segs = <<>> THEN "" ELSE "/" \o Head(segs) \o JoinSegs(Tail(segs))

\* path.normalize of an absolute path, trailing separators dropped
Normalize(p) ==
  LET segs == NormSegs(Split(p), <<>>) IN
  IF segs = <<>> THEN "/" ELSE JoinSegs(segs)

\* path.join(a, b, c) with a absolute
PathJoin3(a, b, c) == Normalize(a \o "/" \o b \o "/" \o c)

\* path.join(a, b) with a absolute
PathJoin2(a, b) == Normalize(a \o "/" \o b)

\* path.resolve(a, b, c) with a absolute: the rightmost absolute argument
\* restarts the path
PathResolve3(a, b, c) ==
  IF StartsWith(c, "/") THEN Normalize(c)
  ELSE IF StartsWith(b, "/") THEN Normalize(b \o "/" \o c)
  ELSE Normalize(a \o "/" \o b \o "/" \o c)

\* the position of the last separator of an absolute path
LastSlash(p) == CHOOSE i \in Slashes(p) : \A j \in Slashes(p) : j <= i

\* path.dirname of an absolute normalized path
Dirname(p) == IF LastSlash(p) = 1 THEN "/" ELSE SubSeq(p, 1, LastSlash(p) - 1)

\* path.basename of an absolute normalized path
Basename(p) == SubSeq(p, LastSlash(p) + 1, Len(p))

-----------------------------------------------------------------------------
(* Configuration.                                                        *)

\* the data root: --base_dir, $BASE_DIR or the platform default
BASE_DIR == "/home/EWMRS"

GUI_DIR == PathJoin2(BASE_DIR, "gui")

\* product name -> file prefix, in declaration order (routes/renders.js of
\* the EWMRS server)
PRODUCT_MAPPING ==
  << <<"CompRefQC", "MRMS_MergedReflectivityQC">>,
     <<"EchoTop18", "MRMS_EchoTop18">>,
     <<"EchoTop30", "MRMS_EchoTop30">>,
     <<"RALA", "MRMS_ReflectivityAtLowestAltitude">>,
     <<"PrecipRate", "MRMS_PrecipRate">>,
     <<"VILDensity", "MRMS_VILDensity">>,
     <<"QPE_01H", "MRMS_QPE">>,
     <<"VII", "MRMS_VII">> >>

\* the mapping of the /fetch/resources, /download/resources router: no VII
PRODUCT_MAPPING_RESOURCES == SubSeq(PRODUCT_MAPPING, 1, Len(PRODUCT_MAPPING) - 1)

\* Object.keys(mapping): the own keys, in declaration order
ObjectKeys(mapping) == [i \in 1..Len(mapping) |-> mapping[i][1]]

OwnKeys(mapping) == {mapping[i][1] : i \in 1..Len(mapping)}

\* What `${value}` gives for the properties every object literal inherits
\* from Object.prototype (a function prints its source, the prototype
\* object prints "[object Object]").
ObjectPrototype ==
  "constructor" :> "function Object() { [native code] }"
  @@ "toString" :> "function toString() { [native code] }"
  @@ "__proto__" :> "[object Object]"

\* mapping[product] where the handler goes on to use it as a string:
\* an own key gives its prefix, an inherited property name gives a truthy
\* value, anything else undefined, written ""
Lookup(mapping, product) ==
  IF product \in OwnKeys(mapping)
  THEN (CHOOSE i \in 1..Len(mapping) : mapping[i][1] = product)
  ELSE 0

MappingGet(mapping, product) ==
  IF Lookup(mapping, product) # 0 THEN mapping[Lookup(mapping, product)][2]
  ELSE IF product \in DOMAIN ObjectPrototype THEN ObjectPrototype[product]
  ELSE ""

-----------------------------------------------------------------------------
(* The file system: a function from absolute path to node.  A node is a   *)
(* directory or a regular file; perm "denied" takes away the read and    *)
(* search permission of the node; ok/json is a file's content as         *)
(* JSON.parse sees it (ok = FALSE: not parsable).                        *)

Dir == [kind |-> "dir", perm |-> "ok", ok |-> TRUE, json |-> <<>>]

File(json) == [kind |-> "file", perm |-> "ok", ok |-> TRUE, json |-> json]

Corrupt == [kind |-> "file", perm |-> "ok", ok |-> FALSE, json |-> <<>>]

Denied(node) == [node EXCEPT !.perm = "denied"]

\* p and the directories on the way to it from the root, the root left out
\* (p absolute and normalized)
Ancestors(p) ==
  IF p = "/" THEN {}
  ELSE {p} \cup {SubSeq(p, 1, i - 1) : i \in Slashes(p) \ {1}}

\* Path resolution: the error of looking p up, "" when p names a node.
\* The first component that fails decides: a missing one is ENOENT, a file
\* used as a directory ENOTDIR, a directory without search permission on
\* the way EACCES.
ResolveErr(f, p) ==
  LET bad == {a \in Ancestors(p) :
                \/ a \notin DOMAIN f
                \/ a # p /\ (f[a].kind = "file" \/ f[a].perm = "denied")}
  IN IF bad = {} THEN ""
     ELSE LET a == CHOOSE x \in bad : \A y \in bad : Len(x) <= Len(y) IN
          IF a \notin DOMAIN f THEN "ENOENT"
          ELSE IF f[a].kind = "file" THEN "ENOTDIR"
          ELSE "EACCES"

\* fs.access(p) (F_OK) and fs.stat(p): only the path resolution can fail
AccessErr(f, p) == ResolveErr(f, p)

\* fs.readFile(p, 'utf8')
ReadFileErr(f, p) ==
  IF ResolveErr(f, p) # "" THEN ResolveErr(f, p)
  ELSE IF f[p].kind = "dir" THEN "EISDIR"
  ELSE IF f[p].perm = "denied" THEN "EACCES"
  ELSE ""

\* fs.readdir(p)
ReaddirErr(f, p) ==
  IF ResolveErr(f, p) # "" THEN ResolveErr(f, p)
  ELSE IF f[p].kind = "file" THEN "ENOTDIR"
  ELSE IF f[p].perm = "denied" THEN "EACCES"
  ELSE ""

\* the immediate children of directory p
Children(f, p) ==
  {q \in DOMAIN f :
     /\ StartsWith(q, p \o "/")
     /\ ~Includes(SubSeq(q, Len(p) + 2, Len(q)), "/")}

\* the file system holding the given nodes (path -> node) and the
\* directories leading to them
MkFs(nodes) ==
  LET dirs == UNION {Ancestors(Dirname(p)) : p \in DOMAIN nodes} IN
  [p \in dirs \cup DOMAIN nodes |-> IF p \in DOMAIN nodes THEN nodes[p] ELSE Dir]

\* what every file system of the model holds: the data root and, outside
\* it, files a traversal would be after
BaseNodes ==
  BASE_DIR :> Dir @@ "/etc/passwd" :> File(<<>>)
  @@ PathJoin2(BASE_DIR, "secret.png") :> File(<<>>)
  @@ PathJoin2(BASE_DIR, "gui-old/a.png") :> File(<<>>)

-----------------------------------------------------------------------------
(* Requests and responses.                                               *)

NoReq == [route |-> "", product |-> "", timestamp |-> "", file |-> ""]

NoRes == [status |-> 0, kind |-> "none", error |-> "", body |-> <<>>, path |-> ""]

NoLoc == [filePath |-> "", idx |-> 0, products |-> <<>>]

\* res.status(s).json({ error: e })
JsonError(s, e) == [NoRes EXCEPT !.status = s, !.kind = "json", !.error = e]

\* res.json(body)
Json(body) == [NoRes EXCEPT !.status = 200, !.kind = "json", !.body = body]

\* res.sendFile(p)
SendFile(p) == [NoRes EXCEPT !.status = 200, !.kind = "file", !.path = p]

Op(name, p, e) == [op |-> name, path |-> p, err |-> e]

Respond(r) ==
  /\ res' = r
  /\ pc' = "done"

-----------------------------------------------------------------------------
(* GET /renders/download and GET /download/resources.                    *)

\* the security check of /download: '..', '/' and '\' in either parameter
DownloadUnsafe(product, timestamp) ==
  \/ Includes(product, "..") \/ Includes(timestamp, "..")
  \/ Includes(product, "/") \/ Includes(product, "\\")
  \/ Includes(timestamp, "/") \/ Includes(timestamp, "\\")

\* the security check of /download/resources: '..' only
DownloadResourcesUnsafe(product, timestamp) ==
  Includes(product, "..") \/ Includes(timestamp, "..")

RouteMapping(route) ==
  IF route = "downloadResources" THEN PRODUCT_MAPPING_RESOURCES ELSE PRODUCT_MAPPING

RouteUnsafe(route, product, timestamp) ==
  IF route = "downloadResources" THEN DownloadResourcesUnsafe(product, timestamp)
  ELSE DownloadUnsafe(product, timestamp)

\* the file name without the underscore between prefix and timestamp
RenderFileName_NoUnderscore(filePrefix, timestamp) ==
  filePrefix \o timestamp \o ".png"

\* `${filePrefix}_${timestamp}.png`
RenderFileName(filePrefix, timestamp) == filePrefix \o "_" \o timestamp \o ".png"

\* path.join(GUI_DIR, product, filename)
RenderFilePath(filePrefix, product, timestamp) ==
  PathJoin3(GUI_DIR, product, RenderFileName(filePrefix, timestamp))

\* the handler checking the file before it validates the parameters
DownloadBegin_AccessFirst(route, product, timestamp) ==
  LET path == RenderFilePath(MappingGet(RouteMapping(route), product),
                             product, timestamp) IN
  /\ pc = "idle"
  /\ req' = [NoReq EXCEPT !.route = route, !.product = product,
                          !.timestamp = timestamp]
  /\ ops' = << Op("access", path, AccessErr(fs, path)) >>
  /\ touched' = {}
  /\ loc' = NoLoc
  /\ UNCHANGED <<fs, writes>>
  /\ IF product = "" \/ timestamp = ""
     THEN Respond(JsonError(400, "Missing product or timestamp parameter"))
     ELSE IF RouteUnsafe(route, product, timestamp)
     THEN Respond(JsonError(400, "Invalid parameters"))
     ELSE IF AccessErr(fs, path) = "" THEN Respond(SendFile(path))
     ELSE Respond(JsonError(404, "File not found"))

\* the handler up to its first await
DownloadBegin(route, product, timestamp) ==
  /\ pc = "idle"
  /\ req' = [NoReq EXCEPT !.route = route, !.product = product,
                          !.timestamp = timestamp]
  /\ ops' = <<>>
  /\ touched' = {}
  /\ UNCHANGED <<fs, writes>>
  /\ IF product = "" \/ timestamp = ""
     THEN Respond(JsonError(400, "Missing product or timestamp parameter"))
          /\ loc' = NoLoc
     ELSE IF RouteUnsafe(route, product, timestamp)
     THEN Respond(JsonError(400, "Invalid parameters")) /\ loc' = NoLoc
     ELSE IF MappingGet(RouteMapping(route), product) = ""
     THEN Respond(JsonError(404, "Unknown product or no mapping found"))
          /\ loc' = NoLoc
     ELSE /\ loc' = [NoLoc EXCEPT !.filePath =
                       RenderFilePath(MappingGet(RouteMapping(route), product),
                                      product, timestamp)]
          /\ pc' = "access"
          /\ res' = NoRes

\* await fs.access(filePath); res.sendFile(filePath), any error: 404
DownloadAccess ==
  /\ pc = "access"
  /\ req.route \in {"download", "downloadResources"}
  /\ IF AccessErr(fs, loc.filePath) = ""
     THEN /\ ops' = ops \o << Op("access", loc.filePath, ""),
                              Op("sendFile", loc.filePath, "") >>
          /\ Respond(SendFile(loc.filePath))
     ELSE /\ ops' = Append(ops, Op("access", loc.filePath, AccessErr(fs, loc.filePath)))
          /\ Respond(JsonError(404, "File not found"))
  /\ UNCHANGED <<fs, req, loc, touched, writes>>

-----------------------------------------------------------------------------
(* Sorting timestamps newest first.                                      *)

\* the collation order of the characters a matched timestamp is made of
Collation == "-0123456789z"

Rank(c) == CHOOSE i \in 1..Len(Collation) : SubSeq(Collation, i, i) = c

\* a.localeCompare(b) on strings over Collation: negative, zero or positive
RECURSIVE LocaleCompare(_, _)
LocaleCompare(a, b) ==
  IF a = "" /\ b = "" THEN 0
  ELSE IF a = "" THEN -1
  ELSE IF b = "" THEN 1
  ELSE IF Rank(Head(a)) < Rank(Head(b)) THEN -1
  ELSE IF Rank(Head(a)) > Rank(Head(b)) THEN 1
  ELSE LocaleCompare(Tail(a), Tail(b))

\* the comparator (a, b) => b.localeCompare(a)
NewestFirst(a, b) == LocaleCompare(b, a)

\* x put into the sorted list after every element that does not sort after it
RECURSIVE InsertSorted(_, _)
InsertSorted(list, x) ==
  IF list = <<>> THEN <<x>>
  ELSE IF NewestFirst(Head(list), x) <= 0
       THEN <<Head(list)>> \o InsertSorted(Tail(list), x)
       ELSE <<x>> \o list

\* timestamps.sort((a, b) => b.localeCompare(a)): a stable sort
RECURSIVE SortNewestFirst(_)
SortNewestFirst(list) ==
  IF list = <<>> THEN <<>>
  ELSE InsertSorted(SortNewestFirst(SubSeq(list, 1, Len(list) - 1)), list[Len(list)])

-----------------------------------------------------------------------------
(* GET /renders/fetch and GET /fetch/resources: the index-file listing.  *)

\* the security check on the product name
FetchUnsafe(product) ==
  Includes(product, "..") \/ Includes(product, "/") \/ Includes(product, "\\")

\* path.join(path.join(GUI_DIR, product), 'index.json')
IndexFile(product) == PathJoin2(PathJoin2(GUI_DIR, product), "index.json")

\* the handler up to its first await
FetchBegin(route, product) ==
  /\ pc = "idle"
  /\ req' = [NoReq EXCEPT !.route = route, !.product = product]
  /\ ops' = <<>>
  /\ touched' = {}
  /\ UNCHANGED <<fs, writes>>
  /\ IF product = ""
     THEN Respond(JsonError(400, "Missing product parameter")) /\ loc' = NoLoc
     ELSE IF FetchUnsafe(product)
     THEN Respond(JsonError(400, "Invalid product name")) /\ loc' = NoLoc
     ELSE /\ loc' = [NoLoc EXCEPT !.filePath = IndexFile(product)]
          /\ pc' = "readFile"
          /\ res' = NoRes

\* the handler sorting the parsed list before it answers
FetchAnswer_Sorted(e, n) ==
  IF e = "" /\ n.ok THEN Json(SortNewestFirst(n.json))
  ELSE IF e = "ENOENT" THEN Json(<<>>)
  ELSE JsonError(500, "Internal server error")

\* the handler treating a missing index as a failure like any other
FetchAnswer_NoEnoent(e, n) ==
  IF e = "" /\ n.ok THEN Json(n.json)
  ELSE JsonError(500, "Internal server error")

\* the handler answering [] for every failure
FetchAnswer_AllEmpty(e, n) ==
  IF e = "" /\ n.ok THEN Json(n.json)
  ELSE Json(<<>>)

\* what the handler answers once readFile has settled with error e on node n:
\* the parsed list as it is, [] for ENOENT, 500 for any other failure
\* (JSON.parse's SyntaxError has no code)
FetchAnswer(e, n) ==
  IF e = "" /\ n.ok THEN Json(n.json)
  ELSE IF e = "ENOENT" THEN Json(<<>>)
  ELSE JsonError(500, "Internal server error")

\* await fs.readFile(indexFile, 'utf8'); JSON.parse; res.json
FetchRead ==
  /\ pc = "readFile"
  /\ req.route \in {"fetch", "fetchResources"}
  /\ LET e == ReadFileErr(fs, loc.filePath) IN
     /\ ops' = Append(ops, Op("readFile", loc.filePath, e))
     /\ Respond(FetchAnswer(e, IF e = "" THEN fs[loc.filePath] ELSE Corrupt))
  /\ UNCHANGED <<fs, req, loc, touched, writes>>

-----------------------------------------------------------------------------
(* GET /renders/:product/:file of the listing server.                    *)

GUI_SUBDIRS ==
  <<"RALA", "NLDN", "EchoTop18", "EchoTop30", "QPE_01H", "PrecipRate",
    "ProbSevere", "FLASH", "VILDensity", "VII", "RotationTrack30min",
    "CompRefQC", "RhoHV", "PrecipFlag", "maps">>

\* GUI_SUBDIRS.includes(product)
KnownSubdir(product) == \E i \in 1..Len(GUI_SUBDIRS) : GUI_SUBDIRS[i] = product

\* path.resolve(absGuiDir, product, file)
Requested(product, file) == PathResolve3(Normalize(GUI_DIR), product, file)

\* the containment check without the separator: a sibling whose name starts
\* like GUI_DIR passes
InsideGuiDir_NoSeparator(requested) == StartsWith(requested, Normalize(GUI_DIR))

\* requested.startsWith(absGuiDir + path.sep) || requested === absGuiDir
InsideGuiDir(requested) ==
  StartsWith(requested, Normalize(GUI_DIR) \o "/") \/ requested = Normalize(GUI_DIR)

ServeFileBegin(product, file) ==
  /\ pc = "idle"
  /\ req' = [NoReq EXCEPT !.route = "serveFile", !.product = product, !.file = file]
  /\ ops' = <<>>
  /\ touched' = {}
  /\ UNCHANGED <<fs, writes>>
  /\ IF ~KnownSubdir(product)
     THEN Respond(JsonError(404, "unknown product")) /\ loc' = NoLoc
     ELSE IF ~InsideGuiDir(Requested(product, file))
     THEN Respond(JsonError(400, "invalid file path")) /\ loc' = NoLoc
     ELSE /\ loc' = [NoLoc EXCEPT !.filePath = Requested(product, file)]
          /\ pc' = "access"
          /\ res' = NoRes

\* await fs.access(requested), any error: 404; else res.sendFile(requested, cb)
ServeFileAccess ==
  /\ pc = "access"
  /\ req.route = "serveFile"
  /\ LET e == AccessErr(fs, loc.filePath) IN
     IF e # ""
     THEN /\ ops' = Append(ops, Op("access", loc.filePath, e))
          /\ Respond(JsonError(404, "file not found"))
     ELSE /\ ops' = ops \o << Op("access", loc.filePath, ""),
                              Op("sendFile", loc.filePath, "") >>
          /\ pc' = "send"
          /\ res' = NoRes
  /\ UNCHANGED <<fs, req, loc, touched, writes>>

\* sendFile's callback: the file went out, or err and the 500
ServeFileSent ==
  /\ pc = "send"
  /\ req.route = "serveFile"
  /\ IF ReadFileErr(fs, loc.filePath) = ""
     THEN Respond(SendFile(loc.filePath))
     ELSE Respond(JsonError(500, "failed to send file"))
  /\ UNCHANGED <<fs, req, loc, ops, touched, writes>>

-----------------------------------------------------------------------------
(* The client reads the response; the server is ready for the next one.  *)

Finish ==
  /\ pc = "done"
  /\ pc' = "idle"
  /\ req' = NoReq
  /\ res' = NoRes
  /\ loc' = NoLoc
  /\ ops' = <<>>
  /\ touched' = {}
  /\ UNCHANGED <<fs, writes>>

-----------------------------------------------------------------------------
(* WPC surface analysis: the directory-scan listing and the retrieval.   *)

\* path.join(baseDir, 'wpc', 'surface_analysis')
WpcDir == PathJoin3(BASE_DIR, "wpc", "surface_analysis")

\* \d
IsDigit(c) == c \in {"0", "1", "2", "3", "4", "5", "6", "7", "8", "9"}

\* \d{n} on the whole of s
Digits(s, n) == Len(s) = n /\ \A i \in 1..n : IsDigit(SubSeq(s, i, i))

\* /^\d{8}-\d{2}z$/.test(s)
SurfaceTimestampFormat(s) ==
  /\ Len(s) = 12
  /\ Digits(SubSeq(s, 1, 8), 8)
  /\ SubSeq(s, 9, 9) = "-"
  /\ Digits(SubSeq(s, 10, 11), 2)
  /\ SubSeq(s, 12, 12) = "z"

\* /wpc_sfc_(\d{8}-\d{2}z)\.geojson/ matching at position i of name
SurfaceMatchAt(name, i) ==
  /\ i + 27 <= Len(name)
  /\ SubSeq(name, i, i + 7) = "wpc_sfc_"
  /\ SurfaceTimestampFormat(SubSeq(name, i + 8, i + 19))
  /\ SubSeq(name, i + 20, i + 27) = ".geojson"

\* name.match(...): the group of the leftmost match, "" for no match (null)
SurfaceMatch(name) ==
  LET at == {i \in 1..Len(name) : SurfaceMatchAt(name, i)} IN
  IF at = {} THEN ""
  ELSE LET i == CHOOSE j \in at : \A k \in at : j <= k IN
       SubSeq(name, i + 8, i + 19)

\* the loop over the directory entries: the timestamps pushed, in entry order
RECURSIVE ScanEntries(_)
ScanEntries(entries) ==
  IF entries = <<>> THEN <<>>
  ELSE LET ent == Head(entries) IN
       IF /\ ent.isFile
          /\ EndsWith(ent.name, ".geojson")
          /\ ent.name # "latest.geojson"
          /\ SurfaceMatch(ent.name) # ""
       THEN <<SurfaceMatch(ent.name)>> \o ScanEntries(Tail(entries))
       ELSE ScanEntries(Tail(entries))

\* the orders in which readdir may return the children of directory p
Readdir(f, p) ==
  LET kids == Children(f, p)
      n == Cardinality(kids) IN
  { [i \in 1..n |-> [name |-> Basename(o[i]), isFile |-> f[o[i]].kind = "file"]] :
      o \in {g \in [1..n -> kids] : \A i, j \in 1..n : g[i] = g[j] => i = j} }

WpcTimestampsBegin ==
  /\ pc = "idle"
  /\ req' = [NoReq EXCEPT !.route = "wpcTimestamps"]
  /\ loc' = [NoLoc EXCEPT !.filePath = WpcDir]
  /\ ops' = <<>>
  /\ touched' = {}
  /\ pc' = "readdir"
  /\ res' = NoRes
  /\ UNCHANGED <<fs, writes>>

\* await fs.readdir(wpcDir, { withFileTypes: true }); scan, sort, res.json;
\* ENOENT: [], any other error: 500
WpcTimestampsRead ==
  /\ pc = "readdir"
  /\ req.route = "wpcTimestamps"
  /\ LET e == ReaddirErr(fs, loc.filePath) IN
     /\ ops' = Append(ops, Op("readdir", loc.filePath, e))
     /\ IF e = ""
        THEN \E entries \in Readdir(fs, loc.filePath) :
               Respond(Json(SortNewestFirst(ScanEntries(entries))))
        ELSE IF e = "ENOENT" THEN Respond(Json(<<>>))
        ELSE Respond(JsonError(500, "Failed to list timestamps"))
  /\ UNCHANGED <<fs, req, loc, touched, writes>>

\* path.join(wpcDir, `wpc_sfc_${timestamp}.geojson`)
SurfaceFilePath(timestamp) ==
  PathJoin2(WpcDir, "wpc_sfc_" \o timestamp \o ".geojson")

WpcGetBegin(timestamp) ==
  /\ pc = "idle"
  /\ req' = [NoReq EXCEPT !.route = "wpcGet", !.timestamp = timestamp]
  /\ ops' = <<>>
  /\ touched' = {}
  /\ UNCHANGED <<fs, writes>>
  /\ IF ~SurfaceTimestampFormat(timestamp)
     THEN Respond(JsonError(400, "Invalid timestamp format")) /\ loc' = NoLoc
     ELSE /\ loc' = [NoLoc EXCEPT !.filePath = SurfaceFilePath(timestamp)]
          /\ pc' = "readFile"
          /\ res' = NoRes

\* await fs.readFile(filePath, 'utf-8'); JSON.parse; res.json;
\* ENOENT: 404, any other error: 500
WpcGetRead ==
  /\ pc = "readFile"
  /\ req.route = "wpcGet"
  /\ LET e == ReadFileErr(fs, loc.filePath) IN
     /\ ops' = Append(ops, Op("readFile", loc.filePath, e))
     /\ IF e = "" /\ fs[loc.filePath].ok
        THEN Respond(Json(fs[loc.filePath].json))
        ELSE IF e = "ENOENT"
        THEN Respond(JsonError(404, "Surface analysis not found"))
        ELSE Respond(JsonError(500, "Failed to read surface analysis"))
  /\ UNCHANGED <<fs, req, loc, touched, writes>>

-----------------------------------------------------------------------------
(* The requests the clients send.                                        *)

\* product parameters: mapped, mapped in one router only, unmapped, names
\* every object inherits, missing, and traversal attempts
Products ==
  {"", "CompRefQC", "VII", "UnknownProduct", "constructor", "__proto__",
   "..", "a/b", "a\\b"}

\* :product parameters of /renders/:product/:file
SubdirParams == {"CompRefQC", "maps", "UnknownProduct"}

\* timestamp parameters: well formed, malformed, missing, traversal attempts
Timestamps ==
  {"", "20251226-120000", "abc", "../../etc/passwd", "/../../../secret",
   "x/y", "x\\y"}

\* :file parameters of /renders/:product/:file (Express decodes %2F)
FileParams ==
  {"MRMS_MergedReflectivityQC_20251226-120000.png", "missing.png", "..",
   "../../secret.png", "../../gui-old/a.png", "../../../../etc/passwd",
   "/etc/passwd",
   "../constructor/../CompRefQC/MRMS_MergedReflectivityQC_abc.png"}

\* :timestamp parameters of /wpc/surface-analysis/:timestamp
SurfaceParams ==
  {"20251226-12z", "20251226-18z", "20251226-120000", "2025122-12z",
   "x20251226-12z", "20251226-12zz", "abc", "../../latest"}

-----------------------------------------------------------------------------
(* The file systems a request may meet.                                  *)

\* longest index.json list
MaxIndexLen == 2

\* most entries of the surface-analysis directory
MaxEntries == 3

\* render files the pipeline (or anyone writing under the data root) may
\* have left: scenario 1's file, one per odd timestamp, one under a
\* directory named like an inherited property
RenderCandidates ==
  {"/home/EWMRS/gui/CompRefQC/MRMS_MergedReflectivityQC_20251226-120000.png",
   "/home/EWMRS/gui/CompRefQC/MRMS_MergedReflectivityQC_abc.png",
   "/home/EWMRS/gui/CompRefQC/MRMS_MergedReflectivityQC_x/y.png",
   "/home/EWMRS/gui/constructor/function Object() { [native code] }_20251226-120000.png"}

RenderFamily ==
  { MkFs([p \in S |-> File(<<>>)] @@ (GUI_DIR :> Dir) @@ BaseNodes) :
      S \in {T \in SUBSET RenderCandidates : Cardinality(T) <= MaxFiles} }

IndexTimestamps == {"20251226-120000", "20251226-123000"}

\* the lists index.json may hold, in any order the producer left them
IndexContents == UNION {[1..n -> IndexTimestamps] : n \in 0..MaxIndexLen}

\* states of CompRefQC/index.json: a list, not parsable, unreadable, a
\* directory, or below a product path that is a regular file
IndexNodes ==
  {File(c) : c \in IndexContents} \cup {Corrupt, Denied(File(<<>>)), Dir}

IndexFamily ==
  { MkFs(("/home/EWMRS/gui/CompRefQC/index.json" :> n) @@ BaseNodes) :
      n \in IndexNodes }
  \cup { MkFs(("/home/EWMRS/gui/CompRefQC" :> File(<<>>)) @@ BaseNodes),
         MkFs(("/home/EWMRS/gui/CompRefQC" :> Denied(Dir)) @@ BaseNodes) }

\* entries the surface-analysis directory may hold: analyses, the latest
\* copy, a second file and a directory carrying an analysis name, others
SurfaceCandidates ==
  ("/home/EWMRS/wpc/surface_analysis/wpc_sfc_20251226-12z.geojson" :> File(<<>>))
  @@ ("/home/EWMRS/wpc/surface_analysis/wpc_sfc_20251226-18z.geojson" :> File(<<>>))
  @@ ("/home/EWMRS/wpc/surface_analysis/wpc_sfc_20251227-00z.geojson" :> Corrupt)
  @@ ("/home/EWMRS/wpc/surface_analysis/old_wpc_sfc_20251226-12z.geojson" :> File(<<>>))
  @@ ("/home/EWMRS/wpc/surface_analysis/wpc_sfc_20251226-06z.geojson.geojson" :> Dir)
  @@ ("/home/EWMRS/wpc/surface_analysis/wpc_sfc_20251226-120000.geojson" :> File(<<>>))
  @@ ("/home/EWMRS/wpc/surface_analysis/latest.geojson" :> File(<<>>))

SurfaceFamily ==
  { MkFs([p \in S |-> SurfaceCandidates[p]] @@ (WpcDir :> Dir) @@ BaseNodes) :
      S \in {T \in SUBSET DOMAIN SurfaceCandidates : Cardinality(T) <= MaxEntries} }
  \cup { MkFs((WpcDir :> Denied(Dir)) @@ BaseNodes),
         MkFs((WpcDir :> File(<<>>)) @@ BaseNodes) }

-----------------------------------------------------------------------------
(* The render and surface-analysis routes, one request at a time.        *)

Idle ==
  /\ pc = "idle"
  /\ req = NoReq
  /\ res = NoRes
  /\ loc = NoLoc
  /\ ops = <<>>
  /\ touched = {}
  /\ writes = 0

Init ==
  /\ Idle
  /\ fs \in RenderFamily \cup IndexFamily
            \cup {f \in SurfaceFamily : Cardinality(Children(f, WpcDir)) <= 1}

Next ==
  \/ \E route \in {"download", "downloadResources"},
        product \in Products, timestamp \in Timestamps :
       DownloadBegin(route, product, timestamp)
  \/ DownloadAccess
  \/ \E route \in {"fetch", "fetchResources"}, product \in Products :
       FetchBegin(route, product)
  \/ FetchRead
  \/ \E product \in SubdirParams, file \in FileParams : ServeFileBegin(product, file)
  \/ ServeFileAccess
  \/ ServeFileSent
  \/ WpcTimestampsBegin
  \/ WpcTimestampsRead
  \/ \E timestamp \in SurfaceParams : WpcGetBegin(timestamp)
  \/ WpcGetRead
  \/ Finish

Spec == Init /\ [][Next]_vars

-----------------------------------------------------------------------------
(* The surface-analysis routes over every directory content.             *)

InitWpc ==
  /\ Idle
  /\ fs \in SurfaceFamily

NextWpc ==
  \/ WpcTimestampsBegin
  \/ WpcTimestampsRead
  \/ \E timestamp \in SurfaceParams : WpcGetBegin(timestamp)
  \/ WpcGetRead
  \/ Finish

SpecWpc == InitWpc /\ [][NextWpc]_vars

-----------------------------------------------------------------------------
(* GET /renders/get-items, with the pipeline writing meanwhile.          *)

\* fs.stat(p)
StatErr(f, p) == ResolveErr(f, p)

\* a stat that succeeds counting as a directory whatever it found
IsDirectoryStat_AnyNode(f, p) == StatErr(f, p) = ""

\* const stat = await fs.stat(p); stat.isDirectory(), a failed stat being
\* caught and ignored
IsDirectoryStat(f, p) == StatErr(f, p) = "" /\ f[p].kind = "dir"

GetItemsBegin ==
  /\ pc = "idle"
  /\ req' = [NoReq EXCEPT !.route = "getItems"]
  /\ loc' = [NoLoc EXCEPT !.idx = 1]
  /\ ops' = <<>>
  /\ touched' = {}
  /\ pc' = "stat"
  /\ res' = NoRes
  /\ UNCHANGED <<fs, writes>>

\* one turn of the loop over Object.keys(PRODUCT_MAPPING): the stat settles,
\* a directory is pushed; after the last key res.json(products)
GetItemsStat ==
  /\ pc = "stat"
  /\ req.route = "getItems"
  /\ LET keys == ObjectKeys(PRODUCT_MAPPING)
         p == PathJoin2(GUI_DIR, keys[loc.idx])
         products == IF IsDirectoryStat(fs, p)
                     THEN Append(loc.products, keys[loc.idx])
                     ELSE loc.products
     IN /\ ops' = Append(ops, Op("stat", p, StatErr(fs, p)))
        /\ loc' = [loc EXCEPT !.products = products, !.idx = loc.idx + 1]
        /\ IF loc.idx = Len(keys)
           THEN Respond(Json(products))
           ELSE pc' = "stat" /\ res' = NoRes
  /\ UNCHANGED <<fs, req, touched, writes>>

\* most changes the external writer makes in one run
MaxWrites == 1

\* the external writer creates a directory or a file
WriterCreate(p, node) ==
  /\ writes < MaxWrites
  /\ p \notin DOMAIN fs
  /\ ResolveErr(fs, Dirname(p)) = "" /\ fs[Dirname(p)].kind = "dir"
  /\ fs' = (p :> node) @@ fs
  /\ touched' = touched \cup {p}
  /\ writes' = writes + 1
  /\ UNCHANGED <<pc, req, res, loc, ops>>

\* the external writer removes a file or an empty directory
WriterRemove(p) ==
  /\ writes < MaxWrites
  /\ p \in DOMAIN fs
  /\ Children(fs, p) = {}
  /\ fs' = [q \in DOMAIN fs \ {p} |-> fs[q]]
  /\ touched' = touched \cup {p}
  /\ writes' = writes + 1
  /\ UNCHANGED <<pc, req, res, loc, ops>>

\* the permissions of a node are taken away or given back
WriterChmod(p) ==
  /\ writes < MaxWrites
  /\ p \in DOMAIN fs
  /\ fs' = [fs EXCEPT ![p].perm = IF @ = "ok" THEN "denied" ELSE "ok"]
  /\ touched' = touched \cup {p}
  /\ writes' = writes + 1
  /\ UNCHANGED <<pc, req, res, loc, ops>>

\* the directory of a product
ProductDir(key) == GUI_DIR \o "/" \o key

\* the products whose directory the data roots of the model may start with:
\* the first and the last of the mapping and two neighbours inside it
StartProducts == {"CompRefQC", "RALA", "PrecipRate", "VII"}

\* the data roots get-items may meet: any set of these product directories
ItemsFamily ==
  { MkFs([p \in {ProductDir(k) : k \in S} |-> Dir] @@ (GUI_DIR :> Dir) @@ BaseNodes) :
      S \in SUBSET StartProducts }

InitItems ==
  /\ Idle
  /\ fs \in ItemsFamily

NextItems ==
  \/ GetItemsBegin
  \/ GetItemsStat
  \/ \E k \in OwnKeys(PRODUCT_MAPPING), node \in {Dir, File(<<>>)} :
       WriterCreate(ProductDir(k), node)
  \/ \E k \in OwnKeys(PRODUCT_MAPPING) : WriterRemove(ProductDir(k))
  \/ WriterChmod(GUI_DIR)
  \/ Finish

SpecItems == InitItems /\ [][NextItems]_vars

-----------------------------------------------------------------------------
(* Properties of the render routes.                                      *)

\* a segment with a traversal sequence or a separator in it
TraversalSegment(s) ==
  Includes(s, "..") \/ Includes(s, "/") \/ Includes(s, "\\")

\* a segment path-segment validation is to accept
SafeSegment(s) == s # "" /\ ~TraversalSegment(s)

FetchRoutes == {"fetch", "fetchResources"}

DownloadRoutes == {"download", "downloadResources"}

\* the segments of GUI_DIR lead the segments of p: p is GUI_DIR or below it
UnderGuiDir(p) ==
  LET root == NormSegs(Split(GUI_DIR), <<>>)
      segs == NormSegs(Split(p), <<>>) IN
  Len(segs) >= Len(root) /\ SubSeq(segs, 1, Len(root)) = root

\* the prefix the configuration declares for a product, by the table alone
DeclaredPrefix(route, product) ==
  LET m == RouteMapping(route) IN
  m[CHOOSE i \in 1..Len(m) : m[i][1] = product][2]

\* C1: on list-timestamps (product) and resolve/download (product and
\* timestamp), a parameter containing '..', '/' or '\' is answered 400, and
\* non-empty parameters free of the three pass validation (no 400).
C1_PathSegmentValidation ==
  (pc = "done" /\ req.route \in FetchRoutes \cup DownloadRoutes) =>
    /\ (TraversalSegment(req.product) \/ TraversalSegment(req.timestamp))
         => res.status = 400
    /\ ( /\ SafeSegment(req.product)
         /\ req.route \in DownloadRoutes => SafeSegment(req.timestamp) )
         => res.status # 400

\* C1 as the routes other than /download/resources keep it
C1_HoldsOutsideDownloadResources ==
  req.route # "downloadResources" => C1_PathSegmentValidation

\* the path a file-serving request names, before any check
NamedPath ==
  IF req.route = "serveFile" THEN Requested(req.product, req.file)
  ELSE RenderFilePath(MappingGet(RouteMapping(req.route), req.product),
                      req.product, req.timestamp)

\* C2: every path a file-serving route checks for existence or streams is
\* GUI_DIR or below it, and a request naming a path outside GUI_DIR is
\* answered 400 or 404 with no file-system call and no file sent.
C2_ServedPathsInsideGuiDir ==
  (req.route \in DownloadRoutes \cup {"serveFile"}) =>
    /\ \A i \in 1..Len(ops) : UnderGuiDir(ops[i].path)
    /\ res.kind = "file" => UnderGuiDir(res.path)
    /\ (pc = "done" /\ ~UnderGuiDir(NamedPath)) =>
         res.status \in {400, 404} /\ res.kind = "json" /\ ops = <<>>

\* a traversal through :file or timestamp was refused
C2_Witness ==
  /\ pc = "done"
  /\ req.route = "serveFile"
  /\ KnownSubdir(req.product)
  /\ ~UnderGuiDir(NamedPath)
  /\ res.status = 400

\* C3, on the requests that pass validation (the claim asks the same when
\* the timestamp is unsafe): a product that is not a key of the mapping is
\* answered 404 and no file path is ever built or checked for it.
C3_UnmappedProductNotFound ==
  ( /\ req.route \in DownloadRoutes
    /\ SafeSegment(req.product)
    /\ SafeSegment(req.timestamp)
    /\ req.product \notin OwnKeys(RouteMapping(req.route)) ) =>
      /\ loc.filePath = ""
      /\ ops = <<>>
      /\ pc = "done" => res.status = 404

\* C3 as worded: 404 for an unmapped product whatever the timestamp
C3_NotFoundWhateverTimestamp ==
  ( /\ pc = "done"
    /\ req.route \in DownloadRoutes
    /\ req.product # "" /\ req.timestamp # ""
    /\ req.product \notin OwnKeys(RouteMapping(req.route)) ) =>
      res.status = 404

\* \d{8}-\d{6}: the timestamp format of a render
RenderTimestampFormat(s) ==
  /\ Len(s) = 15
  /\ Digits(SubSeq(s, 1, 8), 8)
  /\ SubSeq(s, 9, 9) = "-"
  /\ Digits(SubSeq(s, 10, 15), 6)

\* C4: a render download of a mapped product or a surface-analysis
\* retrieval whose timestamp does not match its fixed-width pattern is
\* answered 400, not 404.
C4_MalformedTimestampInvalidInput ==
  ( /\ pc = "done"
    /\ \/ /\ req.route \in DownloadRoutes
          /\ req.product \in OwnKeys(RouteMapping(req.route))
          /\ ~RenderTimestampFormat(req.timestamp)
       \/ /\ req.route = "wpcGet"
          /\ ~SurfaceTimestampFormat(req.timestamp) ) =>
      res.status = 400

\* C4 as the surface-analysis retrieval keeps it
C4_HoldsForSurfaceAnalysis ==
  req.route = "wpcGet" => C4_MalformedTimestampInvalidInput

\* {dataRoot}/P/X_T.png, written out
DeclaredRenderPath(route, product, timestamp) ==
  GUI_DIR \o "/" \o product \o "/" \o DeclaredPrefix(route, product)
          \o "_" \o timestamp \o ".png"

\* C5: for a mapped product P with prefix X and a validated timestamp T the
\* download checks exactly GUI_DIR/P/X_T.png; the file is sent iff that
\* check succeeded (the file can be reached), otherwise the answer is 404;
\* nothing is sent without a successful check before it.
C5_ExactPathCheckedThenSent ==
  ( /\ pc = "done"
    /\ req.route \in DownloadRoutes
    /\ req.product \in OwnKeys(RouteMapping(req.route))
    /\ SafeSegment(req.timestamp) ) =>
      LET path == DeclaredRenderPath(req.route, req.product, req.timestamp)
          found == path \in DOMAIN fs /\ \A d \in Ancestors(Dirname(path)) :
                     d \in DOMAIN fs /\ fs[d] = Dir
      IN /\ Len(ops) >= 1
         /\ ops[1].op = "access" /\ ops[1].path = path
         /\ ops[1].err = "" <=> found
         /\ IF found
            THEN /\ res = SendFile(path)
                 /\ ops = << Op("access", path, ""), Op("sendFile", path, "") >>
            ELSE /\ res.status = 404 /\ res.kind = "json"
                 /\ Len(ops) = 1

\* scenario 1: the CompRefQC render of 20251226-120000 exists and is sent
C5_Witness ==
  /\ pc = "done"
  /\ req.route = "download"
  /\ req.product = "CompRefQC"
  /\ req.timestamp = "20251226-120000"
  /\ res.kind = "file"
  /\ res.path = "/home/EWMRS/gui/CompRefQC/MRMS_MergedReflectivityQC_20251226-120000.png"

-----------------------------------------------------------------------------
(* Properties of the timestamp listings.                                 *)

\* each timestamp sorts at or after its successor: newest first
NewestFirstList(list) ==
  \A i \in 1..(Len(list) - 1) : LocaleCompare(list[i], list[i + 1]) >= 0

\* {GUI_DIR}/{product}/index.json, written out
DeclaredIndexFile(product) == GUI_DIR \o "/" \o product \o "/index.json"

\* p does not exist: going down from the root through readable
\* directories, a component of p is not there
Missing(f, p) ==
  \E d \in Ancestors(p) :
    /\ d \notin DOMAIN f
    /\ \A a \in Ancestors(Dirname(d)) : a \in DOMAIN f /\ f[a] = Dir

\* p cannot be read although it is not missing: it or a component on the
\* way is there but unreadable, not a directory, or its content does not parse
Unreadable(f, p) ==
  /\ ~Missing(f, p)
  /\ \/ \E a \in Ancestors(Dirname(p)) : a \in DOMAIN f /\ f[a] # Dir
     \/ p \in DOMAIN f /\ (f[p].kind = "dir" \/ f[p].perm = "denied" \/ ~f[p].ok)

\* a list-timestamps request that passed validation and was answered
FetchAnswered ==
  pc = "done" /\ req.route \in FetchRoutes /\ SafeSegment(req.product)

C7_MissingIndexIsEmptyList ==
  /\ (FetchAnswered /\ Missing(fs, DeclaredIndexFile(req.product)))
       => res = Json(<<>>)
  /\ (pc = "done" /\ req.route = "wpcTimestamps" /\ Missing(fs, WpcDir))
       => res = Json(<<>>)

\* scenario 4: the CompRefQC directory is there, its index.json is not
C7_Witness ==
  /\ FetchAnswered
  /\ req.product = "CompRefQC"
  /\ "/home/EWMRS/gui/CompRefQC" \in DOMAIN fs
  /\ "/home/EWMRS/gui/CompRefQC/index.json" \notin DOMAIN fs
  /\ res = Json(<<>>)

\* C8: an index that cannot be read for another reason than being missing
\* (no permission, content that does not parse) is answered with the 500
\* error, never with the empty list.
C8_UnreadableIndexIsInternalError ==
  (FetchAnswered /\ Unreadable(fs, DeclaredIndexFile(req.product))) =>
    /\ res.status = 500
    /\ res.kind = "json" /\ res.error # ""
    /\ res # Json(<<>>)

\* both failures of the claim: an unparsable index and an unreadable one
C8_Witness ==
  /\ FetchAnswered
  /\ DeclaredIndexFile(req.product) \in DOMAIN fs
  /\ fs[DeclaredIndexFile(req.product)] \in {Corrupt, Denied(File(<<>>))}
  /\ res.status = 500

\* every timestamp sorts strictly after its successor: no duplicates
StrictlyNewestFirstList(list) ==
  \A i \in 1..(Len(list) - 1) : LocaleCompare(list[i], list[i + 1]) > 0

\* C9: the directory-scan listing is strictly descending, no timestamp
\* twice, also when several file names carry the same timestamp.
C9_ScanStrictlyDescending ==
  (pc = "done" /\ req.route = "wpcTimestamps" /\ res.status = 200)
    => StrictlyNewestFirstList(res.body)

\* C9 without the strictness: what the sort alone gives
C9_ScanDescending ==
  (pc = "done" /\ req.route = "wpcTimestamps" /\ res.status = 200)
    => NewestFirstList(res.body)

-----------------------------------------------------------------------------
(* Properties of list-products.                                          *)

\* the place of a product in the declaration of the mapping
DeclaredAt(key) ==
  CHOOSE i \in 1..Len(PRODUCT_MAPPING) : PRODUCT_MAPPING[i][1] = key

\* a stat of p succeeds and finds a directory
AvailableDir(f, p) ==
  /\ p \in DOMAIN f /\ f[p].kind = "dir"
  /\ \A a \in Ancestors(Dirname(p)) : a \in DOMAIN f /\ f[a] = Dir

\* C10: list-products answers 200 with configured products only, in
\* declaration order; a product whose directory the writer left alone
\* during the request is listed iff a stat of it finds a directory; a
\* listed product had a successful stat; no stat failure turns the answer
\* into an error.
C10_ListProductsAvailableInOrder ==
  (pc = "done" /\ req.route = "getItems") =>
    /\ res.status = 200 /\ res.kind = "json"
    /\ \A i \in 1..Len(res.body) : res.body[i] \in OwnKeys(PRODUCT_MAPPING)
    /\ \A i, j \in 1..Len(res.body) :
         i < j => DeclaredAt(res.body[i]) < DeclaredAt(res.body[j])
    /\ \A k \in OwnKeys(PRODUCT_MAPPING) :
         (touched \cap {ProductDir(k), GUI_DIR} = {}) =>
           ( (\E i \in 1..Len(res.body) : res.body[i] = k)
               <=> AvailableDir(fs, ProductDir(k)) )
    /\ \A i \in 1..Len(res.body) :
         \E n \in 1..Len(ops) :
           ops[n] = Op("stat", ProductDir(res.body[i]), "")

\* two products listed in declaration order (not alphabetical) although the
\* stats of later products failed for lack of permission
C10_Witness ==
  /\ pc = "done"
  /\ req.route = "getItems"
  /\ res.status = 200
  /\ res.body = <<"RALA", "PrecipRate">>
  /\ \E n \in 1..Len(ops) : ops[n].err = "EACCES"

-----------------------------------------------------------------------------
(* The listing server: listFilesInDir and GET /renders.                  *)

\* a regular file with its stat: last-modified time and size
FileAt(mtime, size) ==
  [kind |-> "file", perm |-> "ok", ok |-> TRUE, json |-> <<>>,
   mtime |-> mtime, size |-> size]

\* stat.mtimeMs and stat.size of a node
Mtime(node) == IF "mtime" \in DOMAIN node THEN node.mtime ELSE 0

Size(node) == IF "size" \in DOMAIN node THEN node.size ELSE 0

\* String.prototype.toLowerCase on the letters of the reserved extension
LowerChar(c) ==
  IF c = "I" THEN "i" ELSE IF c = "D" THEN "d" ELSE IF c = "X" THEN "x" ELSE c

RECURSIVE ToLowerCase(_)
ToLowerCase(s) ==
  IF s = "" THEN "" ELSE LowerChar(SubSeq(s, 1, 1)) \o ToLowerCase(Tail(s))

\* path.extname(name): from the last '.' on; "" when there is none or when
\* the only one leads the name
ExtName(name) ==
  LET dots == {i \in 1..Len(name) : SubSeq(name, i, i) = "."} IN
  IF dots = {} THEN ""
  ELSE LET i == CHOOSE d \in dots : \A e \in dots : e <= d IN
       IF i = 1 THEN "" ELSE SubSeq(name, i, Len(name))

\* the filter comparing the extension as it is written
Eligible_CaseSensitive(ent) == ent.isFile /\ ExtName(ent.name) # ".idx"

\* ent.isFile() && path.extname(ent.name).toLowerCase() !== '.idx'
Eligible(ent) == ent.isFile /\ ToLowerCase(ExtName(ent.name)) # ".idx"

\* the first eligible entry at or after position k, 0 when there is none
NextEligible(entries, k) ==
  LET at == {i \in k..Len(entries) : Eligible(entries[i])} IN
  IF at = {} THEN 0 ELSE CHOOSE i \in at : \A j \in at : i <= j

\* x put into the list after every element that is not older than it
RECURSIVE InsertByMtime(_, _)
InsertByMtime(list, x) ==
  IF list = <<>> THEN <<x>>
  ELSE IF Head(list).mtime - x.mtime >= 0
       THEN <<Head(list)>> \o InsertByMtime(Tail(list), x)
       ELSE <<x>> \o list

\* files.sort((a, b) => b.mtime - a.mtime): a stable sort, newest first
RECURSIVE SortByMtime(_)
SortByMtime(list) ==
  IF list = <<>> THEN <<>>
  ELSE InsertByMtime(SortByMtime(SubSeq(list, 1, Len(list) - 1)), list[Len(list)])

\* files.slice(0, limit) for limit >= 0
Slice(list, limit) ==
  SubSeq(list, 1, IF limit < Len(list) THEN limit ELSE Len(list))

\* the value of a decimal digit
DigitValue(c) == CHOOSE v \in 0..9 : SubSeq("0123456789", v + 1, v + 1) = c

\* parseInt(s, 10) on a string of decimal digits
RECURSIVE ParseInt(_)
ParseInt(s) ==
  IF s = "" THEN 0
  ELSE 10 * ParseInt(SubSeq(s, 1, Len(s) - 1)) + DigitValue(SubSeq(s, Len(s), Len(s)))

\* parseInt(req.query.limit || '50', 10)
ListingLimit(limit) == ParseInt(IF limit = "" THEN "50" ELSE limit)

\* listFilesInDir returning the empty list where it returns null
Absent_EmptyList == [absent |-> FALSE, files |-> <<>>]

\* what listFilesInDir returns: null, or the files
Absent == [absent |-> TRUE, files |-> <<>>]

Listed(files) == [absent |-> FALSE, files |-> files]

\* the locals of GET /renders and of the listFilesInDir call in flight:
\* the subdirectory reached, its entries, the entry reached, the files
\* pushed, the result object as (key, value) pairs in insertion order, and
\* what listFilesInDir returned for each subdirectory so far
ListingLoc ==
  [filePath |-> "", idx |-> 1, products |-> <<>>, entries |-> <<>>, k |-> 0,
   files |-> <<>>, result |-> <<>>, returned |-> <<>>]

\* { error: 'missing', path: dpath }
MissingMarker(sub, dpath) ==
  [sub |-> sub, kind |-> "missing", files |-> <<>>, path |-> dpath]

\* result[sub] = files
FilesValue(sub, files) ==
  [sub |-> sub, kind |-> "files", files |-> files, path |-> ""]

\* the body of the loop over GUI_SUBDIRS once listFilesInDir has returned
RecordSub(result, sub, dpath, ret, includeEmpty) ==
  IF ~ret.absent /\ Len(ret.files) > 0 THEN Append(result, FilesValue(sub, ret.files))
  ELSE IF ~ret.absent /\ includeEmpty THEN Append(result, FilesValue(sub, <<>>))
  ELSE IF ret.absent THEN Append(result, MissingMarker(sub, dpath))
  ELSE result

\* path.join(GUI_DIR, sub) for the subdirectory reached
ListingDir == PathJoin2(GUI_DIR, GUI_SUBDIRS[loc.idx])

\* GET /renders up to the first await
ListingBegin(limit, includeEmpty) ==
  /\ pc = "idle"
  /\ req' = [route |-> "renders", product |-> "", timestamp |-> "", file |-> "",
             limit |-> ListingLimit(limit), includeEmpty |-> (includeEmpty = "true")]
  /\ loc' = ListingLoc
  /\ ops' = <<>>
  /\ touched' = {}
  /\ pc' = "readdir"
  /\ res' = NoRes
  /\ UNCHANGED <<fs, writes>>

\* listFilesInDir has returned ret: the loop records it and goes on to the
\* next subdirectory, or answers after the last one
ListingReturn(ret) ==
  LET result == RecordSub(loc.result, GUI_SUBDIRS[loc.idx], ListingDir, ret,
                          req.includeEmpty) IN
  /\ loc' = [loc EXCEPT !.idx = loc.idx + 1, !.entries = <<>>, !.k = 0,
                        !.files = <<>>, !.result = result,
                        !.returned = Append(loc.returned, ret)]
  /\ IF loc.idx = Len(GUI_SUBDIRS)
     THEN Respond(Json(result))
     ELSE pc' = "readdir" /\ res' = NoRes

\* await fs.readdir(dirPath, { withFileTypes: true }): any error returns
\* null; with no eligible entry the empty list is sorted, sliced, returned
ListingReaddir ==
  /\ pc = "readdir"
  /\ req.route = "renders"
  /\ LET e == ReaddirErr(fs, ListingDir) IN
     /\ ops' = Append(ops, Op("readdir", ListingDir, e))
     /\ IF e # "" THEN ListingReturn(Absent)
        ELSE \E entries \in Readdir(fs, ListingDir) :
               IF NextEligible(entries, 1) = 0
               THEN ListingReturn(Listed(Slice(SortByMtime(<<>>), req.limit)))
               ELSE /\ loc' = [loc EXCEPT !.entries = entries,
                                          !.k = NextEligible(entries, 1)]
                    /\ pc' = "stat"
                    /\ res' = NoRes
  /\ UNCHANGED <<fs, req, touched, writes>>

\* await fs.stat(full) for the eligible entry reached: an error returns
\* null; after the last entry the files are sorted, sliced and returned
ListingStat ==
  /\ pc = "stat"
  /\ req.route = "renders"
  /\ LET ent == loc.entries[loc.k]
         full == PathJoin2(ListingDir, ent.name)
         e == StatErr(fs, full)
         files == Append(loc.files, [name |-> ent.name, mtime |-> Mtime(fs[full]),
                                     size |-> Size(fs[full])])
         k == NextEligible(loc.entries, loc.k + 1)
     IN /\ ops' = Append(ops, Op("stat", full, e))
        /\ IF e # "" THEN ListingReturn(Absent)
           ELSE IF k = 0
           THEN ListingReturn(Listed(Slice(SortByMtime(files), req.limit)))
           ELSE /\ loc' = [loc EXCEPT !.files = files, !.k = k]
                /\ pc' = "stat"
                /\ res' = NoRes
  /\ UNCHANGED <<fs, req, touched, writes>>

\* limit parameters: absent (the default of 50) and small limits
LimitParams == {"", "1", "2", "3"}

\* includeEmpty parameters
IncludeEmptyParams == {"true", "false"}

\* most entries of a listed directory in an initial file system
MaxListed == 3

\* entries gui/CompRefQC may hold: renders (two of them modified at the
\* same time), sidecar files of the reserved extension in both cases and
\* newer than every render, a file with the reserved extension inside its
\* name, and a sub-directory
ListingCandidates ==
  ("/home/EWMRS/gui/CompRefQC/a.png" :> FileAt(3, 10))
  @@ ("/home/EWMRS/gui/CompRefQC/b.png" :> FileAt(1, 10))
  @@ ("/home/EWMRS/gui/CompRefQC/c.png" :> FileAt(3, 20))
  @@ ("/home/EWMRS/gui/CompRefQC/index.idx" :> FileAt(5, 1))
  @@ ("/home/EWMRS/gui/CompRefQC/CACHE.IDX" :> FileAt(4, 1))
  @@ ("/home/EWMRS/gui/CompRefQC/notes.idx.txt" :> FileAt(2, 5))
  @@ ("/home/EWMRS/gui/CompRefQC/old" :> Dir)

\* the data roots the listing may meet: gui/CompRefQC with any few of the
\* entries, and gui/CompRefQC or gui/RALA missing, empty, unreadable or a
\* regular file; the other known subdirectories are missing
ListingFamily ==
  { MkFs([p \in S |-> ListingCandidates[p]]
         @@ ("/home/EWMRS/gui/CompRefQC" :> Dir) @@ BaseNodes) :
      S \in {T \in SUBSET DOMAIN ListingCandidates : Cardinality(T) <= MaxListed} }
  \cup { MkFs((GUI_DIR :> Dir) @@ BaseNodes),
         MkFs(("/home/EWMRS/gui/CompRefQC" :> Denied(Dir)) @@ BaseNodes),
         MkFs(("/home/EWMRS/gui/CompRefQC" :> Denied(Dir))
              @@ ("/home/EWMRS/gui/CompRefQC/a.png" :> FileAt(3, 10)) @@ BaseNodes),
         MkFs(("/home/EWMRS/gui/CompRefQC" :> File(<<>>)) @@ BaseNodes),
         MkFs(("/home/EWMRS/gui/RALA" :> Dir)
              @@ ("/home/EWMRS/gui/CompRefQC/a.png" :> FileAt(3, 10)) @@ BaseNodes),
         MkFs(("/home/EWMRS/gui/RALA/old" :> Dir) @@ BaseNodes) }

InitListing ==
  /\ Idle
  /\ fs \in ListingFamily

NextListing ==
  \/ \E limit \in LimitParams, includeEmpty \in IncludeEmptyParams :
       ListingBegin(limit, includeEmpty)
  \/ ListingReaddir
  \/ ListingStat
  \/ Finish

SpecListing == InitListing /\ [][NextListing]_vars

-----------------------------------------------------------------------------
(* Properties of the directory lister and the aggregate listing.         *)

\* the directory of the i-th known subdirectory, written out
SubdirPath(i) == GUI_DIR \o "/" \o GUI_SUBDIRS[i]

\* p is a directory that is there
ExistingDir(f, p) ==
  /\ p \in DOMAIN f /\ f[p].kind = "dir"
  /\ \A a \in Ancestors(Dirname(p)) : a \in DOMAIN f /\ f[a] = Dir

\* p is a directory that is there and can be read
ReadableDir(f, p) == ExistingDir(f, p) /\ f[p].perm = "ok"

\* the name carries the reserved extension, in any case
ReservedExtension(name) ==
  Len(name) > 4 /\ ToLowerCase(SubSeq(name, Len(name) - 3, Len(name))) = ".idx"

\* the eligible children of directory p: regular files without the
\* reserved extension
EligibleChildren(f, p) ==
  {q \in Children(f, p) : f[q].kind = "file" /\ ~ReservedExtension(Basename(q))}

\* the values the answer holds under the key of the i-th subdirectory
ReportedFor(i) ==
  {res.body[n] : n \in {m \in 1..Len(res.body) : res.body[m].sub = GUI_SUBDIRS[i]}}

\* an aggregate listing was answered
ListingAnswered == pc = "done" /\ req.route = "renders"

\* the i-th subdirectory is told apart as the claim asks, "exists" being
\* decided by exists(f, p)
AbsentOrEmpty(exists(_, _), i) ==
  /\ Missing(fs, SubdirPath(i)) =>
       /\ loc.returned[i] = Absent
       /\ ReportedFor(i) = {MissingMarker(GUI_SUBDIRS[i], SubdirPath(i))}
  /\ (exists(fs, SubdirPath(i)) /\ EligibleChildren(fs, SubdirPath(i)) = {}) =>
       /\ loc.returned[i] = Listed(<<>>)
       /\ ReportedFor(i) =
            IF req.includeEmpty THEN {FilesValue(GUI_SUBDIRS[i], <<>>)} ELSE {}

NewestEligible(f, p, limit, ret) ==
  LET kids == EligibleChildren(f, p)
      n == Cardinality(kids)
      files == ret.files
      named(j) == p \o "/" \o files[j].name
  IN /\ ~ret.absent
     /\ Len(files) = IF limit < n THEN limit ELSE n
     /\ \A j \in 1..Len(files) :
          /\ named(j) \in kids
          /\ f[named(j)].kind = "file"
          /\ ~ReservedExtension(files[j].name)
          /\ files[j].mtime = f[named(j)].mtime
     /\ \A j, k \in 1..Len(files) : j < k =>
          /\ files[j].name # files[k].name
          /\ files[j].mtime >= files[k].mtime
     /\ \A q \in kids :
          (\A j \in 1..Len(files) : named(j) # q) =>
            \A j \in 1..Len(files) : files[j].mtime >= f[q].mtime

-----------------------------------------------------------------------------
(* Properties of resolve/download and of the surface-analysis retrieval. *)

\* the request in flight passed the validation of its route
PassedValidation ==
  IF req.route = "wpcGet" THEN SurfaceTimestampFormat(req.timestamp)
  ELSE /\ req.product # "" /\ req.timestamp # ""
       /\ ~RouteUnsafe(req.route, req.product, req.timestamp)

\* C13: a download or surface-analysis retrieval answered 400 has made no
\* file-system call, and a request of these routes that has made one had
\* passed validation before: validation precedes the first access.
C13_ValidationBeforeFileSystem ==
  (req.route \in DownloadRoutes \cup {"wpcGet"}) =>
    /\ (pc = "done" /\ res.status = 400) => ops = <<>>
    /\ (ops # <<>> \/ pc \in {"access", "readFile"}) => PassedValidation

\* scenario 3: CompRefQC with timestamp ../../etc/passwd is refused and the
\* file system was never asked
C13_Witness ==
  /\ pc = "done"
  /\ req.route = "download"
  /\ req.product = "CompRefQC"
  /\ req.timestamp = "../../etc/passwd"
  /\ res.status = 400
  /\ ops = <<>>

\* C14: in resolve/download a not-found failure of the existence check is
\* answered 404, and a failure of that check for lack of permission is
\* answered with the 500 server error, not with 404.
C14_OnlyMissingIsNotFound ==
  ( /\ pc = "done"
    /\ req.route \in DownloadRoutes
    /\ Len(ops) >= 1
    /\ ops[1].op = "access" ) =>
      /\ ops[1].err = "ENOENT" => res.status = 404
      /\ ops[1].err = "EACCES" => res.status = 500

\* the timestamps the surface-analysis listing answers with on file system
\* f, whatever order readdir gives the entries in
ListedSurfaceTimestamps(f) ==
  UNION { {SortNewestFirst(ScanEntries(entries))[i] :
             i \in 1..Len(SortNewestFirst(ScanEntries(entries)))} :
          entries \in Readdir(f, WpcDir) }

\* C15: with the directory unchanged, a timestamp the surface-analysis
\* listing returns passes the format check of the retrieval and names an
\* existing file wpc_sfc_{timestamp}.geojson: the retrieval of a listed
\* timestamp is never answered 400 or 404.
C15_ListedTimestampRetrievable ==
  ( /\ pc = "done"
    /\ req.route = "wpcGet"
    /\ ReaddirErr(fs, WpcDir) = ""
    /\ req.timestamp \in ListedSurfaceTimestamps(fs) ) =>
      /\ SurfaceTimestampFormat(req.timestamp)
      /\ (WpcDir \o "/wpc_sfc_" \o req.timestamp \o ".geojson") \in DOMAIN fs
      /\ res.status \notin {400, 404}

-----------------------------------------------------------------------------
(* The aggregate listing with the pipeline writing meanwhile.            *)

\* the renders the writer adds to gui/CompRefQC and removes from it
RaceFiles ==
  {"/home/EWMRS/gui/CompRefQC/a.png", "/home/EWMRS/gui/CompRefQC/b.png"}

\* gui/CompRefQC holding any of these renders
RaceFamily ==
  { MkFs([p \in S |-> ListingCandidates[p]]
         @@ ("/home/EWMRS/gui/CompRefQC" :> Dir) @@ BaseNodes) :
      S \in SUBSET RaceFiles }

InitListingRace ==
  /\ Idle
  /\ fs \in RaceFamily

NextListingRace ==
  \/ \E limit \in LimitParams, includeEmpty \in IncludeEmptyParams :
       ListingBegin(limit, includeEmpty)
  \/ ListingReaddir
  \/ ListingStat
  \/ \E p \in RaceFiles : WriterCreate(p, ListingCandidates[p])
  \/ \E p \in RaceFiles : WriterRemove(p)
  \/ Finish

SpecListingRace == InitListingRace /\ [][NextListingRace]_vars

\* C16: a known subdirectory that is there and readable during the whole
\* request (the writer only adds and removes files in it) is not reported
\* with the 'missing' marker and the lister does not return Absent for it,
\* also when a file goes away between the readdir and its stat.
C16_ExistingDirNeverMissing ==
  ListingAnswered =>
    \A i \in 1..Len(GUI_SUBDIRS) :
      (ReadableDir(fs, SubdirPath(i)) /\ SubdirPath(i) \notin touched) =>
        /\ ~loc.returned[i].absent
        /\ \A v \in ReportedFor(i) : v.kind # "missing"

=============================================================================
